---- MODULE Spec2Model ----
(***************************************************************************)
(* Model of VishalSecond/analyze_catalog_compatibility.py: the one-shot    *)
(* catalog compatibility report.  The run is a straight line of steps over *)
(* the loaded document; pc names the step that runs next.                  *)
(*                                                                         *)
(* A key that is absent from a JSON object and a key whose value is the    *)
(* empty string are the same thing to the script (dict.get(key, "") and a  *)
(* truthiness test), so a missing catalog_sys_id or field.type is modelled *)
(* as "".  The float tests u / t < 0.2 and the float sort key u / t are    *)
(* modelled by exact rational comparison (cross-multiplication): division  *)
(* of Python ints is correctly rounded, so the two agree for every count   *)
(* below 2^26.                                                             *)
(***************************************************************************)
EXTENDS Integers, Sequences, FiniteSets, TLC

VARIABLES
    file,                       \* the input file JSON_FILE as found on disk
    disk,                       \* the report file: absent, stale (left by an earlier run) or written
    pc,                         \* the step that runs next
    exit_status,                \* process exit status, -1 while running
    crash_line,                 \* source line of an uncaught ZeroDivisionError, 0 if none
    error_printed,              \* "Error loading JSON file" was printed
    catalogs,
    variables,
    catalog_ids_with_vars,
    iter_order,                 \* the order in which the set catalog_ids_with_vars iterates
    all_field_types,
    unsupported_field_types,
    catalog_var_counts,
    catalog_unsupported_counts,
    catalog_field_types,
    catalog_unsupported_types,
    fully_compatible,
    partially_compatible,
    problematic,
    catalog_compatibility,
    verdict_pos,                \* number of catalogs the verdict loop has processed
    top_listing,                \* the printed "Top Problematic Catalogs" entries
    field_type_counter,
    total_fields,
    supported_count,
    container_count,
    unsupported_count

vars == << file, disk, pc, exit_status, crash_line, error_printed, catalogs,
           variables, catalog_ids_with_vars, iter_order, all_field_types,
           unsupported_field_types, catalog_var_counts,
           catalog_unsupported_counts, catalog_field_types,
           catalog_unsupported_types, fully_compatible, partially_compatible,
           problematic, catalog_compatibility, verdict_pos, top_listing,
           field_type_counter, total_fields, supported_count, container_count,
           unsupported_count >>

(***************************************************************************)
(* Program constants                                                       *)
(***************************************************************************)
SUPPORTED_FIELD_TYPES ==
    << "Single Line Text", "Multi Line Text", "Date", "Select Box",
       "Multiple Choice", "Lookup Select Box", "Reference", "List Collector" >>

\* variant: a supported label repeated in the container list
CONTAINER_FIELD_TYPES_Overlapping ==
    << "Container Start", "Container End", "Macro", "24", "32", "33", "Date" >>

CONTAINER_FIELD_TYPES ==
    << "Container Start", "Container End", "Macro", "24", "32", "33" >>

TopN == 10

ThresholdDenominator == 5   \* the threshold 0.2, as the fraction 1 / 5

(***************************************************************************)
(* Bounds of the input families                                            *)
(***************************************************************************)
MaxPrefix == 2      \* free variable records at the head of a small input
MaxBulk == 5        \* supported-type records of catalog "a" that follow them
MaxCats == 11       \* catalogs of a many-catalog input
FreeTail == 3       \* catalogs of a many-catalog input whose profile is free
MaxPermSize == 3    \* id sets up to this size iterate in every possible order

(***************************************************************************)
(* Helpers for Python containers                                           *)
(***************************************************************************)
InList(x, l) == \E i \in DOMAIN l : l[i] = x

Range(l) == { l[i] : i \in DOMAIN l }

Min(a, b) == IF a <= b THEN a ELSE b

\* defaultdict / Counter read: a key never written reads as the default
DefaultGet(d, k, default) == IF k \in DOMAIN d THEN d[k] ELSE default

\* d[k] = v on a dict
DictPut(d, k, v) == (k :> v) @@ d

EmptyDict == [ x \in {} |-> 0 ]

\* lst[:n]
Take(lst, n) == [ i \in 1..Min(n, Len(lst)) |-> lst[i] ]

\* One statement after another: value is computed in full, then the rest runs
\* on it (an operator argument alone would be evaluated only when first read)
Then(value, Rest(_)) == CHOOSE r \in { Rest(v) : v \in { value } } : TRUE

\* acc = initial; for x in lst: acc = Body(acc, x).  A range is run as
\* its first half and then its second, which keeps the evaluation shallow.
ForEach(lst, initial, Body(_, _)) ==
    LET RECURSIVE Run(_, _, _)
        Run(lo, hi, acc) ==
            IF lo > hi THEN acc
            ELSE IF lo = hi THEN Body(acc, lst[lo])
            ELSE Then(Run(lo, (lo + hi) \div 2, acc),
                      LAMBDA half : Run((lo + hi) \div 2 + 1, hi, half))
    IN  Run(1, Len(lst), initial)

\* position of x in a sequence without duplicates
PosIn(x, l) == CHOOSE i \in DOMAIN l : l[i] = x

(***************************************************************************)
(* Verdict labels and the outcome of a float division by zero              *)
(***************************************************************************)
FullyCompatible == "Fully Compatible"
PartiallyCompatible == "Partially Compatible"
Problematic == "Problematic"
ZeroDivisionError == "ZeroDivisionError"

(***************************************************************************)
(* Field-type classification (lines 80-83, 122-125)                        *)
(***************************************************************************)
\* variant: "or" in place of "and"
IsUnsupported_Or(field_type) ==
    \/ ~InList(field_type, SUPPORTED_FIELD_TYPES)
    \/ ~InList(field_type, CONTAINER_FIELD_TYPES)

IsUnsupported(field_type) ==
    /\ ~InList(field_type, SUPPORTED_FIELD_TYPES)
    /\ ~InList(field_type, CONTAINER_FIELD_TYPES)

(***************************************************************************)
(* Lines 65-67: the set of non-empty catalog ids the variables refer to    *)
(***************************************************************************)
CatalogIdsWithVars(vs) ==
    { vs[i].catalog_sys_id : i \in { j \in DOMAIN vs : vs[j].catalog_sys_id # "" } }

(***************************************************************************)
(* Lines 76-84: the field-type sets, one variable at a time                *)
(***************************************************************************)
ClassifyStep(acc, var) ==
    IF var.type # ""
    THEN [ all |-> acc.all \cup {var.type},
           unsupported |-> IF IsUnsupported(var.type)
                           THEN acc.unsupported \cup {var.type}
                           ELSE acc.unsupported ]
    ELSE acc

ClassifyLoop(vs) ==
    ForEach(vs, [ all |-> {}, unsupported |-> {} ], ClassifyStep)

(***************************************************************************)
(* Lines 112-127: the per-catalog tallies, one variable at a time          *)
(***************************************************************************)
AggregateCount(acc, var) ==
    LET c == var.catalog_sys_id
        counted == [ acc EXCEPT
            !.var_counts = DictPut(@, c, DefaultGet(@, c, 0) + 1),
            !.field_types = DictPut(@, c, DefaultGet(@, c, {}) \cup {var.type}) ]
    IN  IF IsUnsupported(var.type)
        THEN [ counted EXCEPT
            !.unsupported_counts = DictPut(@, c, DefaultGet(@, c, 0) + 1),
            !.unsupported_types =
                DictPut(@, c, DefaultGet(@, c, {}) \cup {var.type}) ]
        ELSE counted

\* variant: the "continue" of lines 114-115 left out
AggregateStep_NoSkip(acc, var) ==
    IF var.type # "" THEN AggregateCount(acc, var) ELSE acc

\* variant: the "if field_type" of line 118 left out
AggregateStep_CountsUntyped(acc, var) ==
    IF var.catalog_sys_id = "" THEN acc ELSE AggregateCount(acc, var)

AggregateStep(acc, var) ==
    IF var.catalog_sys_id = "" THEN acc
    ELSE IF var.type # "" THEN AggregateCount(acc, var)
    ELSE acc

\* lines 107-110: the four defaultdicts, empty
EmptyAggregate ==
    [ var_counts |-> EmptyDict, unsupported_counts |-> EmptyDict,
      field_types |-> EmptyDict, unsupported_types |-> EmptyDict ]

AggregateLoop(vs) == ForEach(vs, EmptyAggregate, AggregateStep)

(***************************************************************************)
(* Lines 139-147: the verdict of one catalog.  The ratio is computed only  *)
(* when unsupported_vars is not 0.                                         *)
(***************************************************************************)
\* variant: "<=" in place of "<" at line 142
Verdict_BoundaryPartial(unsupported_vars, total_vars) ==
    IF unsupported_vars = 0 THEN FullyCompatible
    ELSE IF total_vars = 0 THEN ZeroDivisionError
    ELSE IF ThresholdDenominator * unsupported_vars <= total_vars
         THEN PartiallyCompatible
    ELSE Problematic

\* variant: the ratio computed before unsupported_vars is tested for 0
Verdict_DivideFirst(unsupported_vars, total_vars) ==
    IF total_vars = 0 THEN ZeroDivisionError
    ELSE IF unsupported_vars = 0 THEN FullyCompatible
    ELSE IF ThresholdDenominator * unsupported_vars < total_vars
         THEN PartiallyCompatible
    ELSE Problematic

Verdict(unsupported_vars, total_vars) ==
    IF unsupported_vars = 0 THEN FullyCompatible
    ELSE IF total_vars = 0 THEN ZeroDivisionError
    ELSE IF ThresholdDenominator * unsupported_vars < total_vars
         THEN PartiallyCompatible
    ELSE Problematic

(***************************************************************************)
(* Lines 141, 144, 147: the tally a verdict increments                     *)
(***************************************************************************)
\* variant: line 147 left out
Tally_ForgetsProblematic(tallies, compatibility) ==
    IF compatibility = FullyCompatible
    THEN [ tallies EXCEPT !.fully = @ + 1 ]
    ELSE IF compatibility = PartiallyCompatible
    THEN [ tallies EXCEPT !.partially = @ + 1 ]
    ELSE tallies

Tally(tallies, compatibility) ==
    IF compatibility = FullyCompatible
    THEN [ tallies EXCEPT !.fully = @ + 1 ]
    ELSE IF compatibility = PartiallyCompatible
    THEN [ tallies EXCEPT !.partially = @ + 1 ]
    ELSE [ tallies EXCEPT !.problematic = @ + 1 ]

(***************************************************************************)
(* Lines 172-181: the Problematic catalogs in iteration order, then a      *)
(* stable sort on the ratio, highest first (list.sort keeps the order of   *)
(* equal keys, with reverse=True too)                                      *)
(***************************************************************************)
RatioLess(a, b) ==
    a.unsupported_vars * b.total_vars < b.unsupported_vars * a.total_vars

ProblematicInOrder(order, cc) ==
    SelectSeq(order, LAMBDA cid : cc[cid].compatibility = Problematic)

\* x goes after every element whose ratio is at least its own
InsertDescending(sorted, x, cc) ==
    LET lower == { i \in DOMAIN sorted : RatioLess(cc[sorted[i]], cc[x]) }
        at == IF lower = {} THEN Len(sorted) + 1
              ELSE CHOOSE i \in lower : \A j \in lower : i <= j
    IN  SubSeq(sorted, 1, at - 1) \o << x >> \o SubSeq(sorted, at, Len(sorted))

\* variant: the sort without reverse=True (InsertAscending, SortByRatio_NoReverse)
InsertAscending(sorted, x, cc) ==
    LET higher == { i \in DOMAIN sorted : RatioLess(cc[x], cc[sorted[i]]) }
        at == IF higher = {} THEN Len(sorted) + 1
              ELSE CHOOSE i \in higher : \A j \in higher : i <= j
    IN  SubSeq(sorted, 1, at - 1) \o << x >> \o SubSeq(sorted, at, Len(sorted))

SortByRatio_NoReverse(lst, cc) ==
    ForEach(lst, << >>, LAMBDA sorted, x : InsertAscending(sorted, x, cc))

SortByRatio(lst, cc) ==
    ForEach(lst, << >>, LAMBDA sorted, x : InsertDescending(sorted, x, cc))

(***************************************************************************)
(* Lines 199-206, 220-221: the frequency table and the sums over it        *)
(***************************************************************************)
FrequencyStep(counter, var) ==
    IF var.type # ""
    THEN DictPut(counter, var.type, DefaultGet(counter, var.type, 0) + 1)
    ELSE counter

FrequencyLoop(vs) == ForEach(vs, EmptyDict, FrequencyStep)

RECURSIVE SumValues(_, _)
SumValues(counter, keys) ==
    IF keys = {} THEN 0
    ELSE LET k == CHOOSE x \in keys : TRUE
         IN  counter[k] + SumValues(counter, keys \ {k})

SumOverList(counter, lst) ==
    ForEach(lst, 0, LAMBDA sum, ft : sum + DefaultGet(counter, ft, 0))

(***************************************************************************)
(* Line 184: catalog_names, a later record of the same sys_id wins         *)
(***************************************************************************)
CatalogNames(cs) ==
    ForEach(cs, EmptyDict, LAMBDA names, c : DictPut(names, c.sys_id, c.name))

(***************************************************************************)
(* Lines 186-195: the printed entries, the first TopN of the sorted list   *)
(***************************************************************************)
Listing(sorted, cc, names) ==
    LET shown == Take(sorted, TopN)
    IN  [ i \in DOMAIN shown |->
            [ name |-> DefaultGet(names, shown[i], "Unknown"),
              catalog_id |-> shown[i],
              unsupported_vars |-> cc[shown[i]].unsupported_vars,
              total_vars |-> cc[shown[i]].total_vars,
              unsupported_types |-> cc[shown[i]].unsupported_types ] ]

(***************************************************************************)
(* The iteration order of a Python set of strings depends on the hash      *)
(* seed: any order can come out, the same one each time the unchanged set  *)
(* is iterated.  Small sets take every order; larger ones three of them.   *)
(***************************************************************************)
CatalogUniverse ==
    << "a", "b", "c", "d", "e", "f", "g", "h", "i", "j", "k", "l", "m", "n" >>

CatalogDisplayNames ==
    << "A", "B", "C", "D", "E", "F", "G", "H", "I", "J", "K", "L", "M", "N" >>

Reverse(l) == [ i \in DOMAIN l |-> l[Len(l) + 1 - i] ]

Orders(S) ==
    LET n == Cardinality(S)
        ascending == SelectSeq(CatalogUniverse, LAMBDA x : x \in S)
        odd == SelectSeq(CatalogUniverse,
                         LAMBDA x : x \in S /\ PosIn(x, CatalogUniverse) % 2 = 1)
        even == SelectSeq(CatalogUniverse,
                          LAMBDA x : x \in S /\ PosIn(x, CatalogUniverse) % 2 = 0)
    IN  IF n <= MaxPermSize
        THEN { o \in [ 1..n -> S ] : \A i, j \in 1..n : o[i] = o[j] => i = j }
        ELSE { ascending, Reverse(ascending), even \o odd }

(***************************************************************************)
(* Input documents.  A small document has up to MaxPrefix arbitrary        *)
(* variable records followed by 0, MaxBulk - 1 or MaxBulk supported        *)
(* records of catalog "a"; a many-catalog document has MaxCats - 1 or      *)
(* MaxCats catalogs, each with the variables of one profile: the first     *)
(* ones all of the same profile, the last FreeTail of any.                 *)
(***************************************************************************)
CatalogRecord(i) == [ sys_id |-> CatalogUniverse[i], name |-> CatalogDisplayNames[i] ]

VariableRecord(c, t) == [ catalog_sys_id |-> c, type |-> t ]

SmallRecords ==
    { VariableRecord(c, t) : c \in { "", "a", "b" },
                             t \in { "", "Date", "Macro", "Widget" } }

Bulk(k) == [ i \in 1..k |-> VariableRecord("a", "Date") ]

SmallDocuments ==
    { [ kind |-> "json",
        catalogs |-> [ i \in 1..nc |-> CatalogRecord(i) ],
        variables |-> prefix \o Bulk(k) ] :
      nc \in 0..1,
      prefix \in UNION { [ 1..n -> SmallRecords ] : n \in 0..MaxPrefix },
      k \in { 0, MaxBulk - 1, MaxBulk } }

Profiles ==
    << << "Widget", "Gadget" >>,                                \* 2 of 2
       << "Widget", "Date" >>,                                  \* 1 of 2
       << "Date" >>,                                            \* 0 of 1
       << "Gadget", "Date", "Date", "Date", "Date" >>,          \* 1 of 5
       << "Widget", "Macro", "Date", "Date", "Date", "Date" >> >>   \* 1 of 6

\* the profiles the first catalogs of a many-catalog document share
BaseProfiles == { p \in DOMAIN Profiles : Len(Profiles[p]) = 2 }

ProfileVariables(i, p) ==
    [ j \in DOMAIN Profiles[p] |-> VariableRecord(CatalogUniverse[i], Profiles[p][j]) ]

RECURSIVE ManyVariables(_, _, _, _)
ManyVariables(i, n, base, tail) ==
    IF i > n THEN << >>
    ELSE ProfileVariables(i, IF i <= n - FreeTail THEN base
                             ELSE tail[i - (n - FreeTail)])
         \o ManyVariables(i + 1, n, base, tail)

ManyDocuments ==
    { [ kind |-> "json",
        catalogs |-> [ i \in 1..n |-> CatalogRecord(i) ],
        variables |-> ManyVariables(1, n, base, tail) ] :
      n \in { MaxCats - 1, MaxCats },
      base \in BaseProfiles,
      tail \in [ 1..FreeTail -> DOMAIN Profiles ] }

NoDocument(kind) == [ kind |-> kind, catalogs |-> << >>, variables |-> << >> ]

Files == { NoDocument("absent"), NoDocument("malformed") }
         \cup SmallDocuments \cup ManyDocuments

NoReport == [ summary |-> << >> ]

(***************************************************************************)
(* The state at process start                                              *)
(***************************************************************************)
Init ==
    /\ file \in Files
    /\ disk \in { [ state |-> st, report |-> NoReport ] :
                     st \in IF file.kind = "json" THEN { "stale" }
                            ELSE { "absent", "stale" } }
    /\ pc = "load"
    /\ exit_status = -1
    /\ crash_line = 0
    /\ error_printed = FALSE
    /\ catalogs = << >>
    /\ variables = << >>
    /\ catalog_ids_with_vars = {}
    /\ iter_order = << >>
    /\ all_field_types = {}
    /\ unsupported_field_types = {}
    /\ catalog_var_counts = EmptyDict
    /\ catalog_unsupported_counts = EmptyDict
    /\ catalog_field_types = EmptyDict
    /\ catalog_unsupported_types = EmptyDict
    /\ fully_compatible = 0
    /\ partially_compatible = 0
    /\ problematic = 0
    /\ catalog_compatibility = EmptyDict
    /\ verdict_pos = 0
    /\ top_listing = << >>
    /\ field_type_counter = EmptyDict
    /\ total_fields = 0
    /\ supported_count = 0
    /\ container_count = 0
    /\ unsupported_count = 0

\* an uncaught ZeroDivisionError raised at the given line ends the process
Crash(line) ==
    /\ pc' = "crashed"
    /\ crash_line' = line
    /\ exit_status' = 1

Goto(next) ==
    /\ pc' = next
    /\ UNCHANGED << crash_line, exit_status >>

(***************************************************************************)
(* Lines 48-50, 58-59: the file parses; catalogs and variables are read    *)
(***************************************************************************)
Load ==
    /\ pc = "load"
    /\ file.kind = "json"
    /\ catalogs' = file.catalogs
    /\ variables' = file.variables
    /\ Goto("stats")
    /\ UNCHANGED << file, disk, error_printed, catalog_ids_with_vars,
                    iter_order, all_field_types, unsupported_field_types,
                    catalog_var_counts, catalog_unsupported_counts,
                    catalog_field_types, catalog_unsupported_types,
                    fully_compatible, partially_compatible, problematic,
                    catalog_compatibility, verdict_pos, top_listing,
                    field_type_counter, total_fields, supported_count,
                    container_count, unsupported_count >>

(***************************************************************************)
(* Lines 51-53: FileNotFoundError or JSONDecodeError, print and exit(1)    *)
(***************************************************************************)
\* variant: the sys.exit(1) of line 53 left out
LoadError_NoExit ==
    /\ pc = "load"
    /\ file.kind # "json"
    /\ error_printed' = TRUE
    /\ Goto("stats")
    /\ UNCHANGED << file, disk, catalogs, variables, catalog_ids_with_vars,
                    iter_order, all_field_types, unsupported_field_types,
                    catalog_var_counts, catalog_unsupported_counts,
                    catalog_field_types, catalog_unsupported_types,
                    fully_compatible, partially_compatible, problematic,
                    catalog_compatibility, verdict_pos, top_listing,
                    field_type_counter, total_fields, supported_count,
                    container_count, unsupported_count >>

LoadError ==
    /\ pc = "load"
    /\ file.kind # "json"
    /\ error_printed' = TRUE
    /\ pc' = "exit"
    /\ exit_status' = 1
    /\ UNCHANGED << file, disk, crash_line, catalogs, variables,
                    catalog_ids_with_vars, iter_order, all_field_types,
                    unsupported_field_types, catalog_var_counts,
                    catalog_unsupported_counts, catalog_field_types,
                    catalog_unsupported_types, fully_compatible,
                    partially_compatible, problematic, catalog_compatibility,
                    verdict_pos, top_listing, field_type_counter,
                    total_fields, supported_count, container_count,
                    unsupported_count >>

(***************************************************************************)
(* Lines 65-70: the catalogs with variables, and their share of all        *)
(* catalogs, which divides by len(catalogs)                                *)
(***************************************************************************)
BasicStats ==
    /\ pc = "stats"
    /\ catalog_ids_with_vars' = CatalogIdsWithVars(variables)
    /\ iter_order' \in Orders(CatalogIdsWithVars(variables))
    /\ IF Len(catalogs) = 0 THEN Crash(69) ELSE Goto("classify")
    /\ UNCHANGED << file, disk, error_printed, catalogs, variables,
                    all_field_types, unsupported_field_types,
                    catalog_var_counts, catalog_unsupported_counts,
                    catalog_field_types, catalog_unsupported_types,
                    fully_compatible, partially_compatible, problematic,
                    catalog_compatibility, verdict_pos, top_listing,
                    field_type_counter, total_fields, supported_count,
                    container_count, unsupported_count >>

(***************************************************************************)
(* Lines 73-84: all_field_types and unsupported_field_types                *)
(***************************************************************************)
ClassifyFieldTypes ==
    /\ pc = "classify"
    /\ LET sets == ClassifyLoop(variables)
       IN  /\ all_field_types' = sets.all
           /\ unsupported_field_types' = sets.unsupported
    /\ Goto("aggregate")
    /\ UNCHANGED << file, disk, error_printed, catalogs, variables,
                    catalog_ids_with_vars, iter_order, catalog_var_counts,
                    catalog_unsupported_counts, catalog_field_types,
                    catalog_unsupported_types, fully_compatible,
                    partially_compatible, problematic, catalog_compatibility,
                    verdict_pos, top_listing, field_type_counter,
                    total_fields, supported_count, container_count,
                    unsupported_count >>

(***************************************************************************)
(* Lines 107-134: the per-catalog tallies; the verdict tallies start at 0  *)
(***************************************************************************)
AggregatePerCatalog ==
    /\ pc = "aggregate"
    /\ LET acc == AggregateLoop(variables)
       IN  /\ catalog_var_counts' = acc.var_counts
           /\ catalog_unsupported_counts' = acc.unsupported_counts
           /\ catalog_field_types' = acc.field_types
           /\ catalog_unsupported_types' = acc.unsupported_types
    /\ fully_compatible' = 0
    /\ partially_compatible' = 0
    /\ problematic' = 0
    /\ catalog_compatibility' = EmptyDict
    /\ verdict_pos' = 0
    /\ Goto("verdicts")
    /\ UNCHANGED << file, disk, error_printed, catalogs, variables,
                    catalog_ids_with_vars, iter_order, all_field_types,
                    unsupported_field_types, top_listing, field_type_counter,
                    total_fields, supported_count, container_count,
                    unsupported_count >>

(***************************************************************************)
(* Lines 135-154: one iteration of the verdict loop                        *)
(***************************************************************************)
VerdictIteration ==
    /\ pc = "verdicts"
    /\ verdict_pos < Len(iter_order)
    /\ LET catalog_id == iter_order[verdict_pos + 1]
           total_vars == DefaultGet(catalog_var_counts, catalog_id, 0)
           unsupported_vars == DefaultGet(catalog_unsupported_counts, catalog_id, 0)
           compatibility == Verdict(unsupported_vars, total_vars)
           tallies == Tally([ fully |-> fully_compatible,
                              partially |-> partially_compatible,
                              problematic |-> problematic ], compatibility)
       IN  IF compatibility = ZeroDivisionError
           THEN /\ Crash(142)
                /\ UNCHANGED << fully_compatible, partially_compatible,
                                problematic, catalog_compatibility, verdict_pos >>
           ELSE /\ fully_compatible' = tallies.fully
                /\ partially_compatible' = tallies.partially
                /\ problematic' = tallies.problematic
                /\ catalog_compatibility' =
                      DictPut(catalog_compatibility, catalog_id,
                              [ compatibility |-> compatibility,
                                total_vars |-> total_vars,
                                unsupported_vars |-> unsupported_vars,
                                unsupported_types |->
                                    DefaultGet(catalog_unsupported_types,
                                               catalog_id, {}) ])
                /\ verdict_pos' = verdict_pos + 1
                /\ Goto("verdicts")
    /\ UNCHANGED << file, disk, error_printed, catalogs, variables,
                    catalog_ids_with_vars, iter_order, all_field_types,
                    unsupported_field_types, catalog_var_counts,
                    catalog_unsupported_counts, catalog_field_types,
                    catalog_unsupported_types, top_listing,
                    field_type_counter, total_fields, supported_count,
                    container_count, unsupported_count >>

(***************************************************************************)
(* Lines 157-167: the loop is over; the summary percentages divide by      *)
(* len(catalog_ids_with_vars)                                              *)
(***************************************************************************)
CompatibilitySummary ==
    /\ pc = "verdicts"
    /\ verdict_pos = Len(iter_order)
    /\ IF Cardinality(catalog_ids_with_vars) = 0 THEN Crash(159) ELSE Goto("rank")
    /\ UNCHANGED << file, disk, error_printed, catalogs, variables,
                    catalog_ids_with_vars, iter_order, all_field_types,
                    unsupported_field_types, catalog_var_counts,
                    catalog_unsupported_counts, catalog_field_types,
                    catalog_unsupported_types, fully_compatible,
                    partially_compatible, problematic, catalog_compatibility,
                    verdict_pos, top_listing, field_type_counter,
                    total_fields, supported_count, container_count,
                    unsupported_count >>

(***************************************************************************)
(* Lines 170-196: the top problematic catalogs; the sort key divides by    *)
(* total_vars                                                              *)
(***************************************************************************)
RankProblematic ==
    /\ pc = "rank"
    /\ IF problematic > 0
       THEN LET problematic_catalogs ==
                    ProblematicInOrder(iter_order, catalog_compatibility)
            IN  IF \E i \in DOMAIN problematic_catalogs :
                       catalog_compatibility[problematic_catalogs[i]].total_vars = 0
                THEN /\ Crash(180)
                     /\ UNCHANGED top_listing
                ELSE /\ top_listing' =
                          Listing(SortByRatio(problematic_catalogs,
                                              catalog_compatibility),
                                  catalog_compatibility,
                                  CatalogNames(catalogs))
                     /\ Goto("frequencies")
       ELSE /\ UNCHANGED top_listing
            /\ Goto("frequencies")
    /\ UNCHANGED << file, disk, error_printed, catalogs, variables,
                    catalog_ids_with_vars, iter_order, all_field_types,
                    unsupported_field_types, catalog_var_counts,
                    catalog_unsupported_counts, catalog_field_types,
                    catalog_unsupported_types, fully_compatible,
                    partially_compatible, problematic, catalog_compatibility,
                    verdict_pos, field_type_counter, total_fields,
                    supported_count, container_count, unsupported_count >>

(***************************************************************************)
(* Lines 199-217: the frequency table; each printed share divides by       *)
(* total_fields, inside the loop over the table's entries                  *)
(***************************************************************************)
FieldTypeFrequencies ==
    /\ pc = "frequencies"
    /\ LET counter == FrequencyLoop(variables)
           total == SumValues(counter, DOMAIN counter)
       IN  /\ field_type_counter' = counter
           /\ total_fields' = total
           /\ IF DOMAIN counter # {} /\ total = 0
              THEN Crash(217) ELSE Goto("overall")
    /\ UNCHANGED << file, disk, error_printed, catalogs, variables,
                    catalog_ids_with_vars, iter_order, all_field_types,
                    unsupported_field_types, catalog_var_counts,
                    catalog_unsupported_counts, catalog_field_types,
                    catalog_unsupported_types, fully_compatible,
                    partially_compatible, problematic, catalog_compatibility,
                    verdict_pos, top_listing, supported_count,
                    container_count, unsupported_count >>

(***************************************************************************)
(* Lines 220-233: the overall counts; the shares divide by total_fields    *)
(***************************************************************************)
OverallCompatibility ==
    /\ pc = "overall"
    /\ LET supported == SumOverList(field_type_counter, SUPPORTED_FIELD_TYPES)
           container == SumOverList(field_type_counter, CONTAINER_FIELD_TYPES)
       IN  /\ supported_count' = supported
           /\ container_count' = container
           /\ unsupported_count' = total_fields - supported - container
    /\ IF total_fields = 0 THEN Crash(226) ELSE Goto("write")
    /\ UNCHANGED << file, disk, error_printed, catalogs, variables,
                    catalog_ids_with_vars, iter_order, all_field_types,
                    unsupported_field_types, catalog_var_counts,
                    catalog_unsupported_counts, catalog_field_types,
                    catalog_unsupported_types, fully_compatible,
                    partially_compatible, problematic, catalog_compatibility,
                    verdict_pos, top_listing, field_type_counter,
                    total_fields >>

(***************************************************************************)
(* Lines 236-268: the report file is written; the process ends with 0      *)
(***************************************************************************)
Report ==
    [ summary |->
        [ total_catalogs |-> Len(catalogs),
          catalogs_with_variables |-> Cardinality(catalog_ids_with_vars),
          fully_compatible |-> fully_compatible,
          partially_compatible |-> partially_compatible,
          problematic |-> problematic,
          supported_fields |-> supported_count,
          container_fields |-> container_count,
          unsupported_fields |-> unsupported_count,
          total_fields |-> total_fields ],
      field_types |->
        [ all |-> all_field_types,
          supported |-> SUPPORTED_FIELD_TYPES,
          container |-> CONTAINER_FIELD_TYPES,
          unsupported |-> unsupported_field_types ],
      field_frequencies |-> field_type_counter,
      catalog_compatibility |-> catalog_compatibility ]

WriteReport ==
    /\ pc = "write"
    /\ disk' = [ state |-> "written", report |-> Report ]
    /\ pc' = "done"
    /\ exit_status' = 0
    /\ UNCHANGED << file, crash_line, error_printed, catalogs, variables,
                    catalog_ids_with_vars, iter_order, all_field_types,
                    unsupported_field_types, catalog_var_counts,
                    catalog_unsupported_counts, catalog_field_types,
                    catalog_unsupported_types, fully_compatible,
                    partially_compatible, problematic, catalog_compatibility,
                    verdict_pos, top_listing, field_type_counter,
                    total_fields, supported_count, container_count,
                    unsupported_count >>

Next ==
    \/ Load
    \/ LoadError
    \/ BasicStats
    \/ ClassifyFieldTypes
    \/ AggregatePerCatalog
    \/ VerdictIteration
    \/ CompatibilitySummary
    \/ RankProblematic
    \/ FieldTypeFrequencies
    \/ OverallCompatibility
    \/ WriteReport

Spec == Init /\ [][Next]_vars

(***************************************************************************)
(* How far the run has got: the values a step computes are read only once  *)
(* that step is over.  A crashed run stays where the crash_line is.        *)
(***************************************************************************)
AggregateDone ==
    \/ pc \in { "verdicts", "rank", "frequencies", "overall", "write", "done" }
    \/ pc = "crashed" /\ crash_line >= 142

VerdictsDone ==
    \/ pc = "verdicts" /\ verdict_pos = Len(iter_order)
    \/ pc \in { "rank", "frequencies", "overall", "write", "done" }
    \/ pc = "crashed" /\ crash_line >= 159

RankDone ==
    \/ pc \in { "frequencies", "overall", "write", "done" }
    \/ pc = "crashed" /\ crash_line >= 217

FrequenciesDone ==
    \/ pc \in { "overall", "write", "done" }
    \/ pc = "crashed" /\ crash_line >= 217

OverallDone ==
    \/ pc \in { "write", "done" }
    \/ pc = "crashed" /\ crash_line >= 226

\* the variables list with record i taken out
Without(vs, i) == SubSeq(vs, 1, i - 1) \o SubSeq(vs, i + 1, Len(vs))

\* the indices of the variables of catalog c that carry a field type
TypedOf(c) ==
    { i \in DOMAIN variables :
        variables[i].catalog_sys_id = c /\ variables[i].type # "" }

\* those of them whose type is in neither static list
UnsupportedOf(c) ==
    { i \in TypedOf(c) :
        /\ variables[i].type \notin Range(SUPPORTED_FIELD_TYPES)
        /\ variables[i].type \notin Range(CONTAINER_FIELD_TYPES) }

ProblematicIds ==
    { c \in DOMAIN catalog_compatibility :
        catalog_compatibility[c].compatibility = Problematic }

(***************************************************************************)
(* C1 as stated: for every entry of catalog_compatibility the verdict is   *)
(* Problematic iff 5 * unsupported_vars >= total_vars, Partially           *)
(* Compatible iff 0 < 5 * unsupported_vars < total_vars, Fully Compatible  *)
(* iff unsupported_vars = 0.  An entry with total_vars = 0 breaks the      *)
(* first equivalence.                                                      *)
(***************************************************************************)
C1_VerdictByCrossMultiplication ==
    \A c \in DOMAIN catalog_compatibility :
        LET e == catalog_compatibility[c]
        IN  /\ e.compatibility = Problematic
                <=> 5 * e.unsupported_vars >= e.total_vars
            /\ e.compatibility = PartiallyCompatible
                <=> (0 < e.unsupported_vars /\ 5 * e.unsupported_vars < e.total_vars)
            /\ e.compatibility = FullyCompatible <=> e.unsupported_vars = 0

(***************************************************************************)
(* C1 amended: for every entry of catalog_compatibility the verdict is     *)
(* Problematic iff unsupported_vars > 0 and 5 * unsupported_vars >=        *)
(* total_vars (so a ratio of exactly 0.2 is Problematic), Partially        *)
(* Compatible iff unsupported_vars > 0 and 5 * unsupported_vars <          *)
(* total_vars, and Fully Compatible iff unsupported_vars = 0, which        *)
(* includes the entries with total_vars = 0, which have no ratio.          *)
(***************************************************************************)
C1_VerdictThresholds ==
    \A c \in DOMAIN catalog_compatibility :
        LET e == catalog_compatibility[c]
        IN  /\ e.compatibility \in { FullyCompatible, PartiallyCompatible, Problematic }
            /\ e.compatibility = Problematic
                <=> (e.unsupported_vars > 0 /\ 5 * e.unsupported_vars >= e.total_vars)
            /\ e.compatibility = PartiallyCompatible
                <=> (e.unsupported_vars > 0 /\ 5 * e.unsupported_vars < e.total_vars)
            /\ e.compatibility = FullyCompatible <=> e.unsupported_vars = 0

\* an entry whose ratio is exactly 0.2 has its verdict
C1_BoundaryReached ==
    \E c \in DOMAIN catalog_compatibility :
        /\ catalog_compatibility[c].unsupported_vars > 0
        /\ 5 * catalog_compatibility[c].unsupported_vars
              = catalog_compatibility[c].total_vars

(***************************************************************************)
(* C2 as stated: a variable record without a catalog reference or without  *)
(* a field type is counted nowhere: the per-catalog tallies, the field-    *)
(* type sets, the frequency table, total_fields and the set of catalogs    *)
(* with variables are what they would be without the record.               *)
(***************************************************************************)
SameCatalogTallies(vs) ==
    LET acc == AggregateLoop(vs)
    IN  AggregateDone =>
            /\ catalog_var_counts = acc.var_counts
            /\ catalog_unsupported_counts = acc.unsupported_counts
            /\ catalog_field_types = acc.field_types
            /\ catalog_unsupported_types = acc.unsupported_types

SameFieldTypeTables(vs) ==
    LET sets == ClassifyLoop(vs)
        counter == FrequencyLoop(vs)
    IN  /\ AggregateDone =>
              /\ all_field_types = sets.all
              /\ unsupported_field_types = sets.unsupported
        /\ FrequenciesDone =>
              /\ field_type_counter = counter
              /\ total_fields = SumValues(counter, DOMAIN counter)

SameCatalogsWithVariables(vs) ==
    AggregateDone => catalog_ids_with_vars = CatalogIdsWithVars(vs)

C2_IncompleteRecordCountedNowhere ==
    \A i \in DOMAIN variables :
        (variables[i].catalog_sys_id = "" \/ variables[i].type = "") =>
            /\ SameCatalogTallies(Without(variables, i))
            /\ SameFieldTypeTables(Without(variables, i))
            /\ SameCatalogsWithVariables(Without(variables, i))

(***************************************************************************)
(* C2 amended: a record without a catalog reference changes no per-catalog *)
(* tally and not the set of catalogs with variables (its field type, if it *)
(* has one, still counts in the field-type sets, the frequency table and   *)
(* total_fields); a record without a field type changes no per-catalog     *)
(* tally, no field-type set, no frequency entry and not total_fields (its  *)
(* catalog, if it names one, still counts as a catalog with variables).    *)
(***************************************************************************)
C2_IncompleteRecordSkippedPerPass ==
    \A i \in DOMAIN variables :
        /\ variables[i].catalog_sys_id = "" =>
              /\ SameCatalogTallies(Without(variables, i))
              /\ SameCatalogsWithVariables(Without(variables, i))
        /\ variables[i].type = "" =>
              /\ SameCatalogTallies(Without(variables, i))
              /\ SameFieldTypeTables(Without(variables, i))

\* a finished run whose input has a typed record without a catalog and an
\* untyped record with one
C2_IncompleteRecordsProcessed ==
    /\ pc = "done"
    /\ \E i \in DOMAIN variables :
          variables[i].catalog_sys_id = "" /\ variables[i].type # ""
    /\ \E i \in DOMAIN variables :
          variables[i].catalog_sys_id # "" /\ variables[i].type = ""

(***************************************************************************)
(* C3 as stated: with an empty variables list (and a catalog to divide by  *)
(* at line 69) no ZeroDivisionError ends the run.                          *)
(***************************************************************************)
C3_EmptyVariablesNoArithmeticError ==
    (file.kind = "json" /\ Len(file.variables) = 0 /\ Len(file.catalogs) > 0)
        => pc # "crashed"

(***************************************************************************)
(* C4: when the input file is absent or does not parse, the only step that *)
(* runs is the error exit: the error is printed, the exit status is 1, no  *)
(* aggregation state is ever computed, and the report file stays as it was *)
(* (not created, not overwritten).                                         *)
(***************************************************************************)
C4_LoadFailureIsFatal ==
    /\ [](file.kind # "json" =>
            /\ pc \in { "load", "exit" }
            /\ pc = "exit" => (exit_status = 1 /\ error_printed)
            /\ pc = "load" => (ENABLED LoadError /\ ~ENABLED Load)
            /\ disk.state # "written"
            /\ catalog_ids_with_vars = {}
            /\ all_field_types = {}
            /\ catalog_var_counts = EmptyDict
            /\ catalog_compatibility = EmptyDict
            /\ field_type_counter = EmptyDict
            /\ fully_compatible + partially_compatible + problematic = 0
            /\ total_fields = 0)
    /\ [][file.kind # "json" => disk' = disk]_vars

\* the error exit has been taken with a report of an earlier run on disk
C4_LoadFailureReached ==
    file.kind # "json" /\ pc = "exit" /\ disk.state = "stale"

(***************************************************************************)
(* C5: once the verdict loop is over, catalog_compatibility has an entry   *)
(* for exactly the non-empty catalog ids some variable refers to; in the   *)
(* entry of c, total_vars is the number of variables of c with a field     *)
(* type, unsupported_vars the number of those whose type is in neither     *)
(* list, and unsupported_types the set of the types of exactly those.      *)
(***************************************************************************)
C5_EntriesCountTheVariables ==
    VerdictsDone =>
        /\ DOMAIN catalog_compatibility =
              { c \in Range([ i \in DOMAIN variables |-> variables[i].catalog_sys_id ]) :
                  c # "" }
        /\ \A c \in DOMAIN catalog_compatibility :
              /\ catalog_compatibility[c].total_vars = Cardinality(TypedOf(c))
              /\ catalog_compatibility[c].unsupported_vars
                    = Cardinality(UnsupportedOf(c))
              /\ catalog_compatibility[c].unsupported_types
                    = { variables[i].type : i \in UnsupportedOf(c) }

\* an entry built from two unsupported variables of one type and some
\* supported ones
C5_RepeatedUnsupportedTypeReached ==
    /\ VerdictsDone
    /\ \E c \in DOMAIN catalog_compatibility :
          /\ catalog_compatibility[c].unsupported_vars = 2
          /\ Cardinality(catalog_compatibility[c].unsupported_types) = 1
          /\ catalog_compatibility[c].total_vars > 2

(***************************************************************************)
(* C6: once the overall step has run, the three counts are non-negative    *)
(* and add up to total_fields, which is the number of variables with a     *)
(* field type; the written report carries the same four values.            *)
(***************************************************************************)
C6_CountsPartitionTotalFields ==
    OverallDone =>
        /\ supported_count >= 0
        /\ container_count >= 0
        /\ unsupported_count >= 0
        /\ supported_count + container_count + unsupported_count = total_fields
        /\ total_fields
              = Cardinality({ i \in DOMAIN variables : variables[i].type # "" })
        /\ disk.state = "written" =>
              /\ disk.report.summary.supported_fields = supported_count
              /\ disk.report.summary.container_fields = container_count
              /\ disk.report.summary.unsupported_fields = unsupported_count
              /\ disk.report.summary.total_fields = total_fields

\* a written report with fields of all three classes
C6_AllThreeClassesReported ==
    /\ disk.state = "written"
    /\ supported_count > 0
    /\ container_count > 0
    /\ unsupported_count > 0

(***************************************************************************)
(* C7: when every variable's field type is in SUPPORTED_FIELD_TYPES, every *)
(* entry is Fully Compatible with no unsupported variable and no           *)
(* unsupported type, and the other two tallies stay 0.                     *)
(***************************************************************************)
C7_AllSupportedIsFullyCompatible ==
    (\A i \in DOMAIN variables : variables[i].type \in Range(SUPPORTED_FIELD_TYPES)) =>
        /\ \A c \in DOMAIN catalog_compatibility :
              /\ catalog_compatibility[c].compatibility = FullyCompatible
              /\ catalog_compatibility[c].unsupported_vars = 0
              /\ catalog_compatibility[c].unsupported_types = {}
        /\ partially_compatible = 0
        /\ problematic = 0
        /\ VerdictsDone => fully_compatible = Cardinality(catalog_ids_with_vars)

\* two catalogs, all variables supported, both verdicts given
C7_AllSupportedReached ==
    /\ VerdictsDone
    /\ Cardinality(DOMAIN catalog_compatibility) = 2
    /\ \A i \in DOMAIN variables : variables[i].type \in Range(SUPPORTED_FIELD_TYPES)

(***************************************************************************)
(* C8: the listing holds only Problematic catalogs, each once, min(10,     *)
(* number of Problematic catalogs) of them, in non-increasing order of     *)
(* unsupported_vars / total_vars; a Problematic catalog left out has a     *)
(* ratio no greater than any listed one; catalogs of equal ratio come in   *)
(* the order of the iteration over catalog_ids_with_vars, the left-out     *)
(* ones after the listed ones.                                             *)
(***************************************************************************)
ListedId(i) == top_listing[i].catalog_id

RatioAtLeast(c, d) ==
    catalog_compatibility[c].unsupported_vars * catalog_compatibility[d].total_vars
        >= catalog_compatibility[d].unsupported_vars * catalog_compatibility[c].total_vars

C8_TopListingIsRanked ==
    RankDone =>
        LET listed == { ListedId(i) : i \in DOMAIN top_listing }
        IN  /\ listed \subseteq ProblematicIds
            /\ \A i, j \in DOMAIN top_listing : ListedId(i) = ListedId(j) => i = j
            /\ Len(top_listing) = Min(10, Cardinality(ProblematicIds))
            /\ \A i, j \in DOMAIN top_listing :
                  i < j =>
                     /\ RatioAtLeast(ListedId(i), ListedId(j))
                     /\ RatioAtLeast(ListedId(j), ListedId(i)) =>
                           PosIn(ListedId(i), iter_order) < PosIn(ListedId(j), iter_order)
            /\ \A c \in ProblematicIds \ listed :
                  \A i \in DOMAIN top_listing :
                     /\ RatioAtLeast(ListedId(i), c)
                     /\ RatioAtLeast(c, ListedId(i)) =>
                           PosIn(ListedId(i), iter_order) < PosIn(c, iter_order)

\* more than ten Problematic catalogs, a listing with a tie and a strict
\* drop, and a left-out catalog that ties with a listed one
C8_TruncatedListingReached ==
    /\ RankDone
    /\ Cardinality(ProblematicIds) > 10
    /\ Len(top_listing) = 10
    /\ \E i \in 1..9 : ~RatioAtLeast(ListedId(i + 1), ListedId(i))
    /\ \E i \in 1..9 : RatioAtLeast(ListedId(i + 1), ListedId(i))
    /\ \E c \in ProblematicIds \ { ListedId(i) : i \in 1..10 } :
          RatioAtLeast(c, ListedId(10))

(***************************************************************************)
(* C9: from the start of the verdict loop on, each tally is the number of  *)
(* entries with that verdict, the three add up to the number of entries,   *)
(* which is the number of catalogs the loop has processed; once the loop   *)
(* is over that is len(catalog_ids_with_vars), and the written report      *)
(* carries tallies that add up to its catalogs_with_variables.             *)
(***************************************************************************)
EntriesWith(compatibility) ==
    { c \in DOMAIN catalog_compatibility :
        catalog_compatibility[c].compatibility = compatibility }

C9_TalliesPartitionTheEntries ==
    /\ AggregateDone =>
          /\ fully_compatible = Cardinality(EntriesWith(FullyCompatible))
          /\ partially_compatible = Cardinality(EntriesWith(PartiallyCompatible))
          /\ problematic = Cardinality(EntriesWith(Problematic))
          /\ fully_compatible + partially_compatible + problematic
                = Cardinality(DOMAIN catalog_compatibility)
          /\ DOMAIN catalog_compatibility
                = { iter_order[i] : i \in 1..verdict_pos }
          /\ Cardinality(DOMAIN catalog_compatibility) = verdict_pos
    /\ VerdictsDone =>
          fully_compatible + partially_compatible + problematic
              = Cardinality(catalog_ids_with_vars)
    /\ disk.state = "written" =>
          LET summary == disk.report.summary
              entries == disk.report.catalog_compatibility
          IN  /\ summary.fully_compatible + summary.partially_compatible
                    + summary.problematic = summary.catalogs_with_variables
              /\ summary.catalogs_with_variables = Cardinality(DOMAIN entries)
              /\ summary.fully_compatible = Cardinality(
                    { c \in DOMAIN entries : entries[c].compatibility = FullyCompatible })
              /\ summary.partially_compatible = Cardinality(
                    { c \in DOMAIN entries : entries[c].compatibility = PartiallyCompatible })
              /\ summary.problematic = Cardinality(
                    { c \in DOMAIN entries : entries[c].compatibility = Problematic })

\* the loop is in mid-run with all three verdicts already given
C9_MidLoopAllVerdictsReached ==
    /\ pc = "verdicts"
    /\ verdict_pos < Len(iter_order)
    /\ fully_compatible > 0
    /\ partially_compatible > 0
    /\ problematic > 0

(***************************************************************************)
(* C10: a loaded document ends with the report written and exit status 0   *)
(* exactly when it has a catalog, a variable with a catalog id and a       *)
(* variable with a field type; otherwise it ends in a ZeroDivisionError at *)
(* line 69, 159 or 226 with the report file untouched.  Every other pc has *)
(* a step to take (the verdict loop never runs past its list), and no      *)
(* other division raises.                                                  *)
(***************************************************************************)
CompletesNormally ==
    /\ Len(file.catalogs) > 0
    /\ \E i \in DOMAIN file.variables : file.variables[i].catalog_sys_id # ""
    /\ \E i \in DOMAIN file.variables : file.variables[i].type # ""

C10_DoneIffNoEmptyDivisor ==
    file.kind = "json" =>
        /\ pc \in { "load", "stats", "classify", "aggregate", "verdicts", "rank",
                     "frequencies", "overall", "write", "done", "crashed" }
        /\ pc = "verdicts" => verdict_pos <= Len(iter_order)
        /\ pc = "done" =>
              (CompletesNormally /\ exit_status = 0 /\ disk.state = "written")
        /\ pc = "crashed" =>
              /\ ~CompletesNormally
              /\ exit_status = 1
              /\ disk.state # "written"
              /\ crash_line = 69 <=> Len(file.catalogs) = 0
              /\ crash_line \in { 69, 159, 226 }

\* catalogs and catalog ids are there, field types are not: the run gets
\* through the verdict loop and the ranking and stops at line 226
C10_CrashAtOverallReached ==
    /\ pc = "crashed"
    /\ crash_line = 226
    /\ catalog_ids_with_vars # {}

Terminated == pc \in { "done", "crashed", "exit" }

====
